---- MODULE Spec2Model ----
(***************************************************************************)
(* A model of the chat page of src/main.py: the session State (input,      *)
(* output, in_progress, history) and the event handlers that mutate it.    *)
(*                                                                         *)
(* Handlers that contain `yield` are generators: the code between two      *)
(* yields runs atomically and other handlers may run while one is          *)
(* suspended at a yield.  Each such handler runs in a slot p \in Procs and *)
(* h[p] holds its position (pc) and its local variables.                   *)
(*                                                                         *)
(* Python objects have identity: state.output is a reference to a list     *)
(* object and the list holds references to ChatMessage objects, both of    *)
(* which a suspended handler may still hold after state.output was         *)
(* rebound.  `lists` and `heap` are the list and message objects; objects  *)
(* that nothing refers to any more are freed (Commit).                     *)
(*                                                                         *)
(* Strings are sequences of tokens: "" is << >> and + is \o.               *)
(***************************************************************************)
EXTENDS Integers, Sequences, FiniteSets, TLC

\* ------------------------------------------------------------------ bounds
\* number of handler slots (generator handlers that may be in flight at once)
NumProcs == 2
\* events from outside in one behaviour: the page calls a handler, or the
\* fragment source fails
MaxEvents == 4
\* how many of the response lines of respond_to_chat the model uses
NumLines == 2

\* ------------------------------------------------------- program constants
\* random.randint(2, len(lines)): the least number of lines of a response
MinChunks == 2

Procs == 1 .. NumProcs
\* no list grows beyond two messages per submit
MaxConv == 2 * MaxEvents
\* identities of message and list objects; a new object takes the least free
\* identity, and a step that finds none free is an error of the model
MsgIds == 1 .. (MaxConv + NumProcs)
ListIds == 1 .. (NumProcs + 2)

\* the texts the user types (on_chat_input, the shortcut's e.value)
Texts == {<< >>, <<"p">>}

\* lines of respond_to_chat, each one already followed by its " "
AllLines == <<"L1", "L2", "L3", "L4">>
Lines == {AllLines[i] : i \in 1 .. NumLines}

\* ----------------------------------------------------------------- helpers
Range(s) == {s[i] : i \in 1 .. Len(s)}

Min(S) == CHOOSE x \in S : \A y \in S : x <= y

RemoveAt(s, i) == SubSeq(s, 1, i - 1) \o SubSeq(s, i + 1, Len(s))

\* class ChatMessage; uid is a creation stamp that is not a field of the
\* class: it records which ChatMessage(...) call of a submit first made the
\* message, and copies of the message carry it along
ChatMessage(role, content, edited, rating, uid) ==
  [role |-> role, content |-> content, edited |-> edited, rating |-> rating,
   uid |-> uid]

\* a heap cell that holds no object
FreeCell == [role |-> "free"]

\* asdict with a field left at its default
asdictDropsRating(m) ==
  [role |-> m.role, content |-> m.content, edited |-> m.edited,
   rating |-> 0, uid |-> m.uid]

\* dataclasses.asdict(m): a dict with one key per field
asdict(m) ==
  [role |-> m.role, content |-> m.content, edited |-> m.edited,
   rating |-> m.rating, uid |-> m.uid]

\* ChatMessage(**d)
FromDict(d) == ChatMessage(d.role, d.content, d.edited, d.rating, d.uid)

\* respond_to_chat: random.sample(lines, random.randint(2, len(lines))),
\* every sequence of MinChunks..len(lines) distinct lines
Samples ==
  {s \in UNION {[1 .. n -> Lines] : n \in MinChunks .. NumLines} :
     \A i, j \in 1 .. Len(s) : i # j => s[i] # s[j]}

\* the handler step taken last: its name and, for a click on an indexed
\* component (key "...-index"), the index
Event(op, arg) == [op |-> op, arg |-> arg]

\* a handler slot in which no handler runs
IdleRec ==
  [pc |-> "idle", user_input |-> << >>, out |-> 0, target |-> 0,
   chunks |-> << >>, got |-> << >>, serial |-> 0]

VARIABLES
  input,        \* State.input
  output,       \* State.output: the list object it refers to
  in_progress,  \* State.in_progress
  history,      \* State.history: list of lists of dicts
  lists,        \* list objects: ListIds -> sequence of message objects
  heap,         \* ChatMessage objects
  h,            \* per slot: the handler's pc and locals
  outcome,      \* per slot: how the last handler of the slot ended
  nsub,         \* accepted submits so far
  archived,     \* per history entry: the messages as they were when archived
  nev,          \* user events so far
  ev            \* the handler step taken last

vars ==
  <<input, output, in_progress, history, lists, heap, h, outcome, nsub,
    archived, nev, ev>>

\* --------------------------------------------------------- object graph
LiveLists(o, hh) == ({o} \cup {hh[p].out : p \in Procs}) \ {0}

LiveMsgs(o, ls, hh) ==
  (UNION {Range(ls[l]) : l \in LiveLists(o, hh)}
   \cup {hh[p].target : p \in Procs}) \ {0}

\* the state after a handler step: State.output refers to list o, the list and
\* message objects are ls and hp, the handlers are hh; what is referred to by
\* neither State nor a suspended handler is freed
Commit(o, ls, hp, hh) ==
  /\ output' = o
  /\ h' = hh
  /\ lists' = [l \in ListIds |-> IF l \in LiveLists(o, hh) THEN ls[l] ELSE << >>]
  /\ heap' = [m \in MsgIds |->
                IF m \in LiveMsgs(o, ls, hh) THEN hp[m] ELSE FreeCell]

FreeMsgs == {m \in MsgIds : heap[m] = FreeCell}

FreeLists == ListIds \ LiveLists(output, h)

RECURSIVE FreshSeq(_, _)
FreshSeq(free, n) ==
  IF n = 0 THEN << >>
  ELSE LET m == Min(free) IN <<m>> \o FreshSeq(free \ {m}, n - 1)

\* the messages of a list object, by value
View(l) == [i \in 1 .. Len(lists[l]) |-> heap[lists[l][i]]]

\* [asdict(m) for m in state.output]
Snapshot(l) == [i \in 1 .. Len(lists[l]) |-> asdict(heap[lists[l][i]])]

\* the declared fields of a message or dict
Fields(m) ==
  [role |-> m.role, content |-> m.content, edited |-> m.edited,
   rating |-> m.rating]

FieldsOf(s) == [i \in 1 .. Len(s) |-> Fields(s[i])]

Init ==
  /\ input = << >>
  /\ output = 1
  /\ in_progress = FALSE
  /\ history = << >>
  /\ lists = [l \in ListIds |-> << >>]
  /\ heap = [m \in MsgIds |-> FreeCell]
  /\ h = [p \in Procs |-> IdleRec]
  /\ outcome = [p \in Procs |-> "none"]
  /\ nsub = 0
  /\ archived = << >>
  /\ nev = 0
  /\ ev = Event("init", 0)

\* an event from outside counts against the budget
UserEvent == nev < MaxEvents /\ nev' = nev + 1

\* a suspended handler is resumed
Resumed == nev' = nev

\* ------------------------------------------------------------ on_chat_input
on_chat_input(t) ==
  /\ UserEvent
  /\ input' = t
  /\ ev' = Event("on_chat_input", 0)
  /\ UNCHANGED <<output, in_progress, history, lists, heap, h, outcome, nsub,
                 archived>>

\* a new handler runs in the first slot that is free
FreeSlot(p) ==
  /\ h[p].pc = "idle"
  /\ \A q \in Procs : q < p => h[q].pc # "idle"

\* --------------------------------------------------------- _submit_chat_msg
\* the guard without its in_progress test
SubmitGuardInputOnly == input = << >>

\* `if state.in_progress or not state.input: return`
SubmitGuard == in_progress \/ input = << >>

\* the code of _submit_chat_msg up to its first yield, run by the handler in
\* slot p: return at once, or take the input and clear it
SubmitEntry(p) ==
  IF SubmitGuard
  THEN /\ h' = [h EXCEPT ![p] = IdleRec]
       /\ outcome' = [outcome EXCEPT ![p] = "ignored"]
       /\ UNCHANGED <<input, nsub>>
  ELSE /\ h' = [h EXCEPT ![p] = [IdleRec EXCEPT !.pc = "sub1",
                                                !.user_input = input,
                                                !.serial = nsub + 1]]
       /\ input' = << >>
       /\ nsub' = nsub + 1
       /\ outcome' = [outcome EXCEPT ![p] = "none"]

\* on_click_submit_chat_msg: yield from _submit_chat_msg()
on_click_submit_chat_msg(p) ==
  /\ UserEvent
  /\ FreeSlot(p)
  /\ SubmitEntry(p)
  /\ ev' = Event("click_submit", 0)
  /\ UNCHANGED <<output, in_progress, history, lists, heap, archived>>

\* on_submit_chat_msg (the shortcut), up to its yield: state.input = e.value
on_submit_chat_msg(p, t) ==
  /\ UserEvent
  /\ FreeSlot(p)
  /\ input' = t
  /\ h' = [h EXCEPT ![p] = [IdleRec EXCEPT !.pc = "sc0"]]
  /\ outcome' = [outcome EXCEPT ![p] = "none"]
  /\ ev' = Event("shortcut", 0)
  /\ UNCHANGED <<output, in_progress, history, lists, heap, nsub, archived>>

\* on_submit_chat_msg resumed: yield from _submit_chat_msg()
ShortcutResume(p) ==
  /\ Resumed
  /\ h[p].pc = "sc0"
  /\ SubmitEntry(p)
  /\ ev' = Event("shortcut_submit", 0)
  /\ UNCHANGED <<output, in_progress, history, lists, heap, archived>>

\* `output = state.output or []`: the list object of state.output, or a new
\* list object when that list is empty
OutputOrNew == IF lists[output] # << >> THEN output ELSE Min(FreeLists)

\* _submit_chat_msg between its first and second yield
SubmitAppendUser(p) ==
  /\ Resumed
  /\ h[p].pc = "sub1"
  /\ LET l == OutputOrNew
         m == Min(FreeMsgs)
         hp == [heap EXCEPT ![m] = ChatMessage("user", h[p].user_input, FALSE,
                                               0, 2 * h[p].serial - 1)]
         ls == [lists EXCEPT ![l] = Append(@, m)]
         hh == [h EXCEPT ![p].pc = "sub2", ![p].out = l]
     IN  Commit(output, ls, hp, hh)
  /\ in_progress' = TRUE
  /\ ev' = Event("submit_user", 0)
  /\ UNCHANGED <<input, history, outcome, nsub, archived>>

\* the `for chunk in ...` loop of a handler in slot p, from the point where it
\* is entered or resumed (handler locals base, objects ls and hp, state.output
\* o) to its next yield: k more chunks are appended to the target; the run
\* stops at the yield in the loop when the 0.25 s have elapsed after a chunk
\* (tick), or the chunks are exhausted and it sets in_progress False and
\* stops at the final yield
StreamRun(p, o, ls, hp, base, loopPc, finalPc) ==
  \E k \in 0 .. Len(base.chunks), tick \in BOOLEAN :
    /\ tick => k >= 1
    /\ ~tick => k = Len(base.chunks)
    /\ LET taken == SubSeq(base.chunks, 1, k)
           rest == SubSeq(base.chunks, k + 1, Len(base.chunks))
           hp2 == [hp EXCEPT ![base.target].content = @ \o taken]
           rec == [base EXCEPT !.chunks = rest, !.got = @ \o taken,
                               !.pc = IF tick THEN loopPc ELSE finalPc]
       IN  /\ Commit(o, ls, hp2, [h EXCEPT ![p] = rec])
           /\ in_progress' = IF tick THEN in_progress ELSE FALSE

\* the second argument of `respond_to_chat(user_input, state.output)`: the
\* messages of the list state.output refers to when the handler is resumed,
\* before the bot message is appended and before `state.output = output`
PromptContext == View(output)

\* _submit_chat_msg after its second yield: the response generator and the bot
\* message are created, state.output = output, and the loop is entered
SubmitBegin(p) ==
  /\ Resumed
  /\ h[p].pc = "sub2"
  /\ \E c \in Samples :
       LET l == h[p].out
           m == Min(FreeMsgs)
           hp == [heap EXCEPT ![m] = ChatMessage("bot", << >>, FALSE, 0,
                                                 2 * h[p].serial)]
           ls == [lists EXCEPT ![l] = Append(@, m)]
           base == [h[p] EXCEPT !.out = 0, !.target = m, !.chunks = c,
                                !.got = << >>]
       IN  StreamRun(p, l, ls, hp, base, "sub_loop", "sub_final")
  /\ ev' = Event("submit_begin", 0)
  /\ UNCHANGED <<input, history, outcome, nsub, archived>>

\* a handler suspended at the yield inside its loop is resumed
StreamResume(p) ==
  /\ Resumed
  /\ h[p].pc \in {"sub_loop", "reg_loop"}
  /\ StreamRun(p, output, lists, heap, h[p],
               h[p].pc, IF h[p].pc = "sub_loop" THEN "sub_final" ELSE "reg_final")
  /\ ev' = Event("stream", 0)
  /\ UNCHANGED <<input, history, outcome, nsub, archived>>

\* a handler suspended at its last yield is resumed and ends
HandlerReturn(p) ==
  /\ Resumed
  /\ h[p].pc \in {"sub_final", "reg_final"}
  /\ Commit(output, lists, heap, [h EXCEPT ![p] = IdleRec])
  /\ ev' = Event("return", 0)
  /\ UNCHANGED <<input, in_progress, history, outcome, nsub, archived>>

\* ------------------------------------------------------- on_click_regenerate
\* 0-based indexes of the bot messages of state.output: chat_pane renders the
\* thumb and regenerate buttons (keys "...-index") for these only
BotIndexes ==
  {i \in 0 .. Len(lists[output]) - 1 : heap[lists[output][i + 1]].role = "bot"}

\* state.output[i] of Python raises IndexError for i >= len; state.output[-1]
\* (msg_index - 1 for msg_index 0) is the last element of a non-empty list
RegenIndexError(i) == i >= Len(lists[output])

\* on_click_regenerate with msg_index i, up to its first yield
RegenerateBody(p, i) ==
  /\ UserEvent
  /\ FreeSlot(p)
  /\ IF RegenIndexError(i)
     THEN /\ outcome' = [outcome EXCEPT ![p] = "IndexError"]
          /\ UNCHANGED <<output, lists, heap, h, in_progress>>
     ELSE LET m == lists[output][i + 1]
              hp == [heap EXCEPT ![m].content = << >>]
              hh == [h EXCEPT ![p] = [IdleRec EXCEPT !.pc = "reg1",
                                                     !.target = m]]
          IN  /\ Commit(output, lists, hp, hh)
              /\ in_progress' = TRUE
              /\ outcome' = [outcome EXCEPT ![p] = "none"]
  /\ ev' = Event("regenerate", i)
  /\ UNCHANGED <<input, history, nsub, archived>>

\* a click on the regenerate button of a rendered bot message
on_click_regenerate(p, i) ==
  /\ i \in BotIndexes
  /\ RegenerateBody(p, i)

\* on_click_regenerate after its first yield: the response generator is
\* created and the loop is entered
RegenBegin(p) ==
  /\ Resumed
  /\ h[p].pc = "reg1"
  /\ \E c \in Samples :
       StreamRun(p, output, lists, heap,
                 [h[p] EXCEPT !.chunks = c, !.got = << >>],
                 "reg_loop", "reg_final")
  /\ ev' = Event("regen_begin", 0)
  /\ UNCHANGED <<input, history, outcome, nsub, archived>>

\* ----------------------------------------------------------- thumb handlers
\* state.output[msg_index].rating = value
SetRating(i, value) ==
  /\ UserEvent
  /\ i \in BotIndexes
  /\ Commit(output, lists,
            [heap EXCEPT ![lists[output][i + 1]].rating = value], h)
  /\ UNCHANGED <<input, in_progress, history, outcome, nsub, archived>>

on_click_thumb_up(i) == SetRating(i, 1) /\ ev' = Event("thumb_up", i)

on_click_thumb_down(i) == SetRating(i, -1) /\ ev' = Event("thumb_down", i)

\* ------------------------------------------------- new chat and history
\* a list object for `state.output = ...`: one that no handler refers to
NewList == Min(ListIds \ {h[p].out : p \in Procs})

\* `if state.output: state.history.insert(0, [asdict(m) for m in state.output])`
ArchiveInto(hist) ==
  IF lists[output] # << >> THEN <<Snapshot(output)>> \o hist ELSE hist

\* the same step on the record of what was archived
ArchivedInto(arch) ==
  IF lists[output] # << >> THEN <<FieldsOf(View(output))>> \o arch ELSE arch

\* a new chat that also resets state.input
on_click_new_chat_resets_input ==
  /\ UserEvent
  /\ history' = ArchiveInto(history)
  /\ archived' = ArchivedInto(archived)
  /\ LET l == NewList
     IN  Commit(l, [lists EXCEPT ![l] = << >>], heap, h)
  /\ input' = << >>
  /\ ev' = Event("new_chat", 0)
  /\ UNCHANGED <<in_progress, outcome, nsub>>

on_click_new_chat ==
  /\ UserEvent
  /\ history' = ArchiveInto(history)
  /\ archived' = ArchivedInto(archived)
  /\ LET l == NewList
     IN  Commit(l, [lists EXCEPT ![l] = << >>], heap, h)
  /\ ev' = Event("new_chat", 0)
  /\ UNCHANGED <<input, in_progress, outcome, nsub>>

\* on_click_history with chat_index i (0-based), a rendered history entry
on_click_history(i) ==
  /\ UserEvent
  /\ i \in 0 .. Len(history) - 1
  /\ LET chat == history[i + 1]
         ids == FreshSeq(MsgIds \ LiveMsgs(0, lists, h), Len(chat))
         l == NewList
         hp == [m \in MsgIds |->
                  IF \E k \in 1 .. Len(chat) : ids[k] = m
                  THEN FromDict(chat[CHOOSE k \in 1 .. Len(chat) : ids[k] = m])
                  ELSE heap[m]]
     IN  /\ history' = ArchiveInto(RemoveAt(history, i + 1))
         /\ archived' = ArchivedInto(RemoveAt(archived, i + 1))
         /\ Commit(l, [lists EXCEPT ![l] = ids], hp, h)
  /\ ev' = Event("history", i)
  /\ UNCHANGED <<input, in_progress, outcome, nsub>>

Next ==
  \/ \E t \in Texts : on_chat_input(t)
  \/ \E p \in Procs : on_click_submit_chat_msg(p)
  \/ \E p \in Procs, t \in Texts : on_submit_chat_msg(p, t)
  \/ \E p \in Procs : ShortcutResume(p)
  \/ \E p \in Procs : SubmitAppendUser(p)
  \/ \E p \in Procs : SubmitBegin(p)
  \/ \E p \in Procs, i \in 0 .. MaxConv - 1 : on_click_regenerate(p, i)
  \/ \E p \in Procs : RegenBegin(p)
  \/ \E p \in Procs : StreamResume(p)
  \/ \E p \in Procs : HandlerReturn(p)
  \/ \E i \in 0 .. MaxConv - 1 : on_click_thumb_up(i)
  \/ \E i \in 0 .. MaxConv - 1 : on_click_thumb_down(i)
  \/ on_click_new_chat
  \/ \E i \in 0 .. MaxConv - 1 : on_click_history(i)

Spec == Init /\ [][Next]_vars

\* ----------------------------------------------- the handler called directly
\* on_click_regenerate takes whatever index its event key carries: the handler
\* itself does not look at the role of the message
RegenerateAt(p, i) == RegenerateBody(p, i)

NextRaw ==
  \/ Next
  \/ \E p \in Procs, i \in 0 .. MaxConv : RegenerateAt(p, i)

SpecRaw == Init /\ [][NextRaw]_vars

\* ------------------------------------------------- a failing fragment source
\* the response generator raises when the loop of the handler in slot p asks
\* it for the next chunk, after k more chunks were appended without a yield:
\* neither loop is inside a try, so the exception leaves the handler, which
\* ends there
StreamFail(p) ==
  /\ UserEvent
  /\ h[p].pc \in {"sub2", "reg1", "sub_loop", "reg_loop"}
  /\ \E c \in Samples :
       LET entering == h[p].pc \in {"sub2", "reg1"}
           l == h[p].out
           m == IF h[p].pc = "sub2" THEN Min(FreeMsgs) ELSE h[p].target
           hp == IF h[p].pc = "sub2"
                 THEN [heap EXCEPT ![m] = ChatMessage("bot", << >>, FALSE, 0,
                                                      2 * h[p].serial)]
                 ELSE heap
           ls == IF h[p].pc = "sub2"
                 THEN [lists EXCEPT ![l] = Append(@, m)]
                 ELSE lists
           o == IF h[p].pc = "sub2" THEN l ELSE output
           chunks == IF entering THEN c ELSE h[p].chunks
       IN  \E k \in 0 .. Len(chunks) :
             Commit(o, ls,
                    [hp EXCEPT ![m].content = @ \o SubSeq(chunks, 1, k)],
                    [h EXCEPT ![p] = IdleRec])
  /\ outcome' = [outcome EXCEPT ![p] = "GenerationFailed"]
  /\ ev' = Event("source_failed", 0)
  /\ UNCHANGED <<input, in_progress, history, nsub, archived>>

\* the handlers that stream, with a source that may fail
NextFail ==
  \/ \E p \in Procs, t \in Texts : on_submit_chat_msg(p, t)
  \/ \E p \in Procs : ShortcutResume(p)
  \/ \E p \in Procs : SubmitAppendUser(p)
  \/ \E p \in Procs : SubmitBegin(p)
  \/ \E p \in Procs, i \in 0 .. MaxConv - 1 : on_click_regenerate(p, i)
  \/ \E p \in Procs : RegenBegin(p)
  \/ \E p \in Procs : StreamResume(p)
  \/ \E p \in Procs : HandlerReturn(p)
  \/ \E p \in Procs : StreamFail(p)

SpecFail == Init /\ [][NextFail]_vars

\* ================================================================ properties
\* the handler in slot p is between the start of its stream (it has set
\* in_progress True) and its final yield
Active(p) == h[p].pc \in {"sub2", "sub_loop", "reg1", "reg_loop"}

Streams == {p \in Procs : Active(p)}

AtFinal(p) == h[p].pc \in {"sub_final", "reg_final"}

\* C1: at most one streaming operation is between its start and its final
\* tick, whatever the interleaving of the handlers.
C1_SingleInFlight == Cardinality(Streams) <= 1

\* C2: in_progress is true exactly while a stream is between its start and
\* its final tick.
C2_InProgressTracksStream == in_progress = (Streams # {})

\* C3: when the fragment source fails during the stream of a handler, the
\* stream ends at a final tick with in_progress false, the target keeps the
\* fragments delivered so far and the error does not reach the caller.
C3_FailureAbsorbed ==
  [][\A p \in Procs :
       (ev'.op = "source_failed" /\ Active(p) /\ ~Active(p)') =>
         /\ in_progress' = FALSE
         /\ outcome'[p] # "GenerationFailed"
         /\ AtFinal(p)'
         /\ heap'[h'[p].target].content = h'[p].got]_vars

\* C4: at the step that completes a stream, the content of its target is the
\* concatenation, in order, of exactly the fragments of that stream.
C4_ContentIsConcatenation ==
  [][\A p \in Procs :
       (~AtFinal(p) /\ AtFinal(p)') =>
         heap'[h'[p].target].content = h'[p].got]_vars

\* the step is the guard of _submit_chat_msg evaluated by the handler in slot p
SubmitStep(p) ==
  \/ ev'.op = "click_submit" /\ FreeSlot(p)
  \/ ev'.op = "shortcut_submit" /\ h[p].pc = "sc0" /\ h'[p].pc # "sc0"

\* C5: a submit whose text is empty, or that finds in_progress true, is a
\* silent no-op: the handler ends without an error, no message is appended to
\* the active conversation, and history and in_progress stay as they are.
C5_GuardedSubmitIsNoOp ==
  [][\A p \in Procs :
       (SubmitStep(p) /\ (in_progress \/ input = << >>)) =>
         /\ h'[p].pc = "idle"
         /\ outcome'[p] = "ignored"
         /\ View(output)' = View(output)
         /\ history' = history
         /\ in_progress' = in_progress]_vars

\* a submit was ignored although there was text, because a response was in
\* progress
C5_Witness ==
  /\ ev.op \in {"click_submit", "shortcut_submit"}
  /\ \E p \in Procs : outcome[p] = "ignored"
  /\ in_progress
  /\ input # << >>

\* C6: regenerate(i) on a message that is not a bot message, or that has no
\* message before it, fails with an index error and changes nothing: every
\* regenerate step either starts on a bot message at an index >= 1 or raises
\* and leaves messages, in_progress and handlers alone.
C6_RegenerateNonBotRejected ==
  [][\A p \in Procs :
       (ev'.op = "regenerate" /\ FreeSlot(p)) =>
         \/ /\ h'[p].pc = "reg1"
            /\ ev'.arg >= 1
            /\ heap[h'[p].target].role = "bot"
         \/ /\ outcome'[p] = "IndexError"
            /\ UNCHANGED <<output, lists, heap, h, in_progress>>]_vars

\* C7: restoring a history entry yields an active conversation whose messages
\* equal, field by field and in order, the conversation as it was when it was
\* archived.
C7_RoundTrip ==
  [][ev'.op = "history" =>
       FieldsOf(View(output))' = archived[ev'.arg + 1]]_vars

\* a conversation with a rated, non-empty bot message was restored
C7_Witness ==
  /\ ev.op = "history"
  /\ \E i \in 1 .. Len(lists[output]) :
       /\ heap[lists[output][i]].rating # 0
       /\ heap[lists[output][i]].content # << >>

\* the creation stamps of the messages of the active conversation and of the
\* history entries
Present ==
  {heap[m].uid : m \in Range(lists[output])}
  \cup UNION {{d.uid : d \in Range(history[k])} : k \in 1 .. Len(history)}

\* C8: a message that is in the active conversation or in a history entry is
\* still in one of them after every step.
C8_NeverDeleted == [][Present \subseteq Present']_vars

\* C9 as stated: after newConversation the pending input is empty and the
\* active conversation is empty.
C9_NewChatClearsInput ==
  ev.op = "new_chat" => (input = << >> /\ lists[output] = << >>)

\* C9 amended: newConversation leaves the pending input as it was and empties
\* the active conversation.
C9_NewChatKeepsInput ==
  [][ev'.op = "new_chat" =>
       (input' = input /\ lists'[output'] = << >>)]_vars

\* a new conversation was started while text was pending
C9_Witness ==
  /\ ev.op = "new_chat"
  /\ input # << >>
  /\ Len(history) > 0

\* the roles alternate user, bot, user, ... starting with user
Alternates(s) ==
  \A i \in 1 .. Len(s) : s[i].role = IF i % 2 = 1 THEN "user" ELSE "bot"

AtRest == ~in_progress /\ \A p \in Procs : h[p].pc = "idle"

\* C10: whenever no handler is suspended and in_progress is false, the active
\* conversation and every history entry alternate user/bot starting with user.
C10_Alternation ==
  AtRest =>
    /\ Alternates(View(output))
    /\ \A k \in 1 .. Len(history) : Alternates(history[k])

\* the step is the handler in slot p creating its response generator
SubmitBeginStep(p) ==
  ev'.op = "submit_begin" /\ h[p].pc = "sub2" /\ h'[p].pc # "sub2"

\* C11: on every accepted submit the prompt context handed to the fragment
\* source is the conversation the handler appended its user message to, up to
\* and including that user message (and without the new bot message).
C11_ContextIncludesUserMessage ==
  [][\A p \in Procs :
       SubmitBeginStep(p) =>
         /\ PromptContext = View(h[p].out)
         /\ Len(PromptContext) >= 1
         /\ PromptContext[Len(PromptContext)].role = "user"
         /\ PromptContext[Len(PromptContext)].uid = 2 * h[p].serial - 1]_vars
====
